---- MODULE Spec2Model ----
(***************************************************************************)
(* Truth Social tracker (src/truth_tracker.py): the fetch / parse /        *)
(* analyze / store / report pipeline as a state machine.                   *)
(*                                                                         *)
(* Python values are modelled as follows.                                  *)
(*   str         a sequence of one-character strings                       *)
(*   str | None  a record [isNone, s]: PyNone, or PyStr(s)                 *)
(*   float score an integer number of tenths (0.7 is 7)                    *)
(*   exceptions  the name of the exception that leaves the call, or        *)
(*               NoExc when the call returns                               *)
(***************************************************************************)
EXTENDS Integers, Sequences, FiniteSets, TLC

VARIABLES
    post,       \* SpecAnalyze: the TruthPost object handed to analyze_post
    runs,       \* SpecAnalyze: how many times analyze_post ran on it
    fetch,      \* SpecFetch: the last fetch_posts call, its inputs and outcome
    db,         \* Spec: the rows of table posts, in rowid order
    clock,      \* Spec: the current instant, in hours (UTC)
    last,       \* Spec: the last completed call, its arguments and outcome
    daemon,     \* SpecDaemon: where run_daemon_mode stands, and what it logged
    nitter      \* SpecNitter: the pagination loop of a NitterClient call

vars == <<post, runs, fetch, db, clock, last, daemon, nitter>>

-----------------------------------------------------------------------------
(* Characters and strings *)

UpperCase == <<"A", "B", "C", "D", "E", "F", "G", "H", "I", "J", "K", "L", "M", "N", "O", "P", "Q", "R", "S", "T", "U", "V", "W", "X", "Y", "Z">>

LowerCase == <<"a", "b", "c", "d", "e", "f", "g", "h", "i", "j", "k", "l", "m", "n", "o", "p", "q", "r", "s", "t", "u", "v", "w", "x", "y", "z">>

IsUpper(c) == \E i \in DOMAIN UpperCase : UpperCase[i] = c

IsAlphaChar(c) == IsUpper(c) \/ \E i \in DOMAIN LowerCase : LowerCase[i] = c

\* str.lower() on one character (ASCII)
LowerChar(c) ==
    IF IsUpper(c)
    THEN LowerCase[CHOOSE i \in DOMAIN UpperCase : UpperCase[i] = c]
    ELSE c

ToLower(s) == [i \in 1..Len(s) |-> LowerChar(s[i])]

\* `w in s` for two strings
Contains(s, w) ==
    \E i \in 0..(Len(s) - Len(w)) : \A j \in 1..Len(w) : s[i + j] = w[j]

Min(a, b) == IF a < b THEN a ELSE b

Max(a, b) == IF a > b THEN a ELSE b

\* s[:n] for n >= 0
Prefix(s, n) == SubSeq(s, 1, Min(n, Len(s)))

RECURSIVE Join(_)
\* " ".join(words)
Join(words) ==
    IF Len(words) = 0 THEN <<>>
    ELSE IF Len(words) = 1 THEN words[1]
    ELSE words[1] \o <<" ">> \o Join(Tail(words))

\* the lists that enumerate the finite set S, each element once
Orderings(S) ==
    {f \in [1..Cardinality(S) -> S] : \A i, j \in DOMAIN f : f[i] = f[j] => i = j}

PyNone == [isNone |-> TRUE, s |-> <<>>]

PyStr(s) == [isNone |-> FALSE, s |-> s]

NoExc == "none"

-----------------------------------------------------------------------------
(* analyze_post *)

positive_words == <<
    <<"g", "r", "e", "a", "t">>,
    <<"g", "o", "o", "d">>,
    <<"e", "x", "c", "e", "l", "l", "e", "n", "t">>,
    <<"a", "m", "a", "z", "i", "n", "g">>,
    <<"f", "a", "n", "t", "a", "s", "t", "i", "c">>,
    <<"w", "o", "n", "d", "e", "r", "f", "u", "l">>,
    <<"b", "e", "s", "t">>,
    <<"w", "i", "n">>,
    <<"w", "i", "n", "n", "i", "n", "g">>,
    <<"s", "u", "c", "c", "e", "s", "s">>,
    <<"s", "u", "c", "c", "e", "s", "s", "f", "u", "l">>,
    <<"l", "o", "v", "e">>,
    <<"l", "i", "k", "e">>,
    <<"h", "a", "p", "p", "y">>,
    <<"c", "o", "n", "g", "r", "a", "t", "u", "l", "a", "t", "i", "o", "n", "s">>,
    <<"t", "h", "a", "n", "k">>,
    <<"t", "h", "a", "n", "k", "s">> >>

negative_words == <<
    <<"b", "a", "d">>,
    <<"t", "e", "r", "r", "i", "b", "l", "e">>,
    <<"a", "w", "f", "u", "l">>,
    <<"w", "o", "r", "s", "t">>,
    <<"f", "a", "i", "l">>,
    <<"f", "a", "i", "l", "u", "r", "e">>,
    <<"h", "a", "t", "e">>,
    <<"d", "i", "s", "l", "i", "k", "e">>,
    <<"s", "a", "d">>,
    <<"a", "n", "g", "r", "y">>,
    <<"d", "i", "s", "a", "p", "p", "o", "i", "n", "t", "e", "d">>,
    <<"w", "r", "o", "n", "g">>,
    <<"f", "a", "k", "e">>,
    <<"l", "i", "e">>,
    <<"l", "i", "e", "s">>,
    <<"s", "t", "u", "p", "i", "d">>,
    <<"d", "u", "m", "b">> >>

\* how many times w occurs in s (no keyword overlaps itself)
Occurrences(s, w) ==
    Cardinality({i \in 0..(Len(s) - Len(w)) : \A j \in 1..Len(w) : s[i + j] = w[j]})

RECURSIVE SumOccurrences(_, _, _)
SumOccurrences(words, s, i) ==
    IF i > Len(words) THEN 0
    ELSE Occurrences(s, words[i]) + SumOccurrences(words, s, i + 1)

\* a count of occurrences: sum(content_lower.count(word) for word in words)
KeywordOccurrences(words, content_lower) == SumOccurrences(words, content_lower, 1)

\* sum(1 for word in words if word in content_lower)
KeywordCount(words, content_lower) ==
    Cardinality({i \in DOMAIN words : Contains(content_lower, words[i])})

pos_count(content) == KeywordCount(positive_words, ToLower(content))

neg_count(content) == KeywordCount(negative_words, ToLower(content))

\* a score without the min / max clamps
SentimentScoreUnclamped(pos, neg) ==
    IF pos > neg THEN 5 + (pos - neg)
    ELSE IF neg > pos THEN -5 - (neg - pos)
    ELSE 0

\* sentiment_score, in tenths
SentimentScore(pos, neg) ==
    IF pos > neg THEN Min(5 + (pos - neg), 10)
    ELSE IF neg > pos THEN Max(-5 - (neg - pos), -10)
    ELSE 0

SentimentLabel(pos, neg) ==
    IF pos > neg THEN "positive"
    ELSE IF neg > pos THEN "negative"
    ELSE "neutral"

MaxTickerLen == 5

\* how many upper-case letters start at s[i], counted up to MaxTickerLen
RECURSIVE UpperRun(_, _, _)
UpperRun(s, i, n) ==
    IF n < MaxTickerLen /\ i <= Len(s) /\ IsUpper(s[i])
    THEN UpperRun(s, i + 1, n + 1)
    ELSE n

\* STOCK_PATTERN.findall(s) from position i: the groups of the successive
\* non-overlapping matches of [\$#]([A-Z]{1,5}), left to right
RECURSIVE FindAll(_, _)
FindAll(s, i) ==
    IF i > Len(s) THEN <<>>
    ELSE IF s[i] \in {"$", "#"} /\ UpperRun(s, i + 1, 0) >= 1
         THEN LET k == UpperRun(s, i + 1, 0)
              IN  <<SubSeq(s, i + 1, i + k)>> \o FindAll(s, i + 1 + k)
         ELSE FindAll(s, i + 1)

Range(f) == {f[i] : i \in DOMAIN f}

\* the matches as a list, a symbol as often as it is matched
MentionedStocksList(content) == {FindAll(content, 1)}

\* list(set(matches)): every order the set may be iterated in
MentionedStocks(content) == Orderings(Range(FindAll(content, 1)))

\* the characters str.split() splits at, of those the texts hold
Whitespace == {" ", "\t", "\n"}

\* content.split() from position i, cur being the token read so far
RECURSIVE Split(_, _, _)
Split(s, i, cur) ==
    IF i > Len(s) THEN (IF cur = <<>> THEN <<>> ELSE <<cur>>)
    ELSE IF s[i] \in Whitespace
         THEN (IF cur = <<>> THEN <<>> ELSE <<cur>>) \o Split(s, i + 1, <<>>)
         ELSE Split(s, i + 1, Append(cur, s[i]))

\* str.isalpha()
IsAlpha(w) == Len(w) > 0 /\ \A i \in DOMAIN w : IsAlphaChar(w[i])

KeywordMinLen == 4

MaxKeywords == 10

RECURSIVE Filter(_)
\* [w for w in words if len(w) > 4 and w.isalpha()]
Filter(words) ==
    IF words = <<>> THEN <<>>
    ELSE IF Len(Head(words)) > KeywordMinLen /\ IsAlpha(Head(words))
         THEN <<Head(words)>> \o Filter(Tail(words))
         ELSE Filter(Tail(words))

\* every filtered token, without the [:10]
KeywordsUncut(content) == Filter(Split(content, 1, <<>>))

Keywords(content) == Prefix(Filter(Split(content, 1, <<>>)), MaxKeywords)

\* content.lower() raises AttributeError when content is None
AnalyzeExc(p) == IF p.content.isNone THEN "AttributeError" ELSE NoExc

\* analyze_post(p) when it returns, stocks being the order list(set(...)) took
AnalyzePost(p, stocks) ==
    [p EXCEPT !.sentiment_score =
                  SentimentScore(pos_count(p.content.s), neg_count(p.content.s)),
              !.sentiment_label =
                  SentimentLabel(pos_count(p.content.s), neg_count(p.content.s)),
              !.mentioned_stocks = stocks,
              !.keywords = Keywords(p.content.s)]

\* TruthPost(id=..., created_at=..., content=..., url=..., media_urls=[], 0, 0, 0)
TruthPost(id, created_at, content, url) ==
    [id |-> id, created_at |-> created_at, content |-> content, url |-> url,
     media_urls |-> <<>>, replies_count |-> 0, reblogs_count |-> 0,
     favourites_count |-> 0, sentiment_score |-> 0,
     sentiment_label |-> "neutral", mentioned_stocks |-> <<>>,
     keywords |-> <<>>]

-----------------------------------------------------------------------------
(* fetch_posts *)

\* the candidate sources, in the order of urls_to_try
urls_to_try == <<"rsshub", "trumpstruth">>

\* item.find(tag): a node that is absent, or present with its .text
\* (None when the element holds no text)
Absent == [present |-> FALSE, text |-> PyNone]

NoText == [present |-> TRUE, text |-> PyNone]

Node(s) == [present |-> TRUE, text |-> PyStr(s)]

\* item.find(tag).text if item.find(tag) is not None else ""
TextOrEmpty(node) == IF node.present THEN node.text ELSE PyStr(<<>>)

\* the body of the per-item try block: one TruthPost per item
ParseItem(item) ==
    LET post_id  == TextOrEmpty(item.guid)
        title    == TextOrEmpty(item.title)
        link     == TextOrEmpty(item.link)
        pub_date == TextOrEmpty(item.pubDate)
        content  == IF item.description.present
                    THEN item.description.text
                    ELSE title
    IN  TruthPost(post_id, pub_date, content, link)

\* an item with every node the parser reads
WellFormed(item) ==
    /\ item.guid.present
    /\ item.link.present
    /\ item.pubDate.present
    /\ item.description.present \/ item.title.present

\* a loop that drops the items that lack a node
ParseItemsSkipping(posts, items) ==
    LET kept == SelectSeq(items, WellFormed)
    IN  posts \o [i \in 1..Len(kept) |-> ParseItem(kept[i])]

\* the for loop over root.findall('.//item'), appending to posts
ParseItems(posts, items) ==
    posts \o [i \in 1..Len(items) |-> ParseItem(items[i])]

\* what one source answers: the GET times out, the status is an error
\* (raise_for_status), the body is not XML (ET.fromstring), or a feed.
\* SourceExc is the exception raised inside the outer try block
SourceExc(answer) ==
    CASE answer.kind = "timeout"    -> "requests.Timeout"
      [] answer.kind = "http_error" -> "requests.HTTPError"
      [] answer.kind = "bad_xml"    -> "ParseError"
      [] OTHER                      -> NoExc

\* a handler that names the transport errors only
ExceptRequestException(e) == e \in {"requests.Timeout", "requests.HTTPError"}

\* `except Exception`: every exception but the BaseException-only ones
ExceptException(e) == e \notin {NoExc, "KeyboardInterrupt", "SystemExit"}

\* a loop without the `break`: every source is requested
RECURSIVE FetchLoopNoBreak(_, _, _, _)
FetchLoopNoBreak(answers, i, posts, requested) ==
    IF i > Len(urls_to_try)
    THEN [posts |-> posts, requested |-> requested, exc |-> NoExc]
    ELSE LET req == Append(requested, urls_to_try[i])
             e   == SourceExc(answers[i])
         IN  IF e # NoExc
             THEN FetchLoopNoBreak(answers, i + 1, posts, req)
             ELSE FetchLoopNoBreak(answers, i + 1,
                                   ParseItems(posts, answers[i].items), req)

\* the for loop over urls_to_try from source i on; posts is the list built
\* so far and requested the sources a GET was sent to
RECURSIVE FetchLoop(_, _, _, _)
FetchLoop(answers, i, posts, requested) ==
    IF i > Len(urls_to_try)
    THEN [posts |-> posts, requested |-> requested, exc |-> NoExc]
    ELSE LET req == Append(requested, urls_to_try[i])
             e   == SourceExc(answers[i])
         IN  IF e # NoExc
             THEN IF ExceptException(e)
                  THEN FetchLoop(answers, i + 1, posts, req)
                  ELSE [posts |-> posts, requested |-> req, exc |-> e]
             ELSE LET got == ParseItems(posts, answers[i].items)
                  IN  IF got # <<>>
                      THEN [posts |-> got, requested |-> req, exc |-> NoExc]
                      ELSE FetchLoop(answers, i + 1, got, req)

\* fetch_posts(username, limit): the posts returned (posts[:limit]), the
\* sources requested and the exception that leaves the call
FetchPosts(answers, limit) ==
    LET r == FetchLoop(answers, 1, <<>>, <<>>)
    IN  [posts |-> IF r.exc = NoExc THEN Prefix(r.posts, limit) ELSE <<>>,
         requested |-> r.requested, exc |-> r.exc]

DefaultLimit == 40

-----------------------------------------------------------------------------
(* SQLite and JSON text *)

\* the printable ASCII characters in code order (" " is 32, "T" is 84);
\* no text of the model holds a backslash or a backtick
Ascii == <<
    " ", "!", "\"", "#", "$", "%", "&", "'", "(", ")", "*", "+",
    ",", "-", ".", "/", "0", "1", "2", "3", "4", "5", "6", "7",
    "8", "9", ":", ";", "<", "=", ">", "?", "@", "A", "B", "C",
    "D", "E", "F", "G", "H", "I", "J", "K", "L", "M", "N", "O",
    "P", "Q", "R", "S", "T", "U", "V", "W", "X", "Y", "Z", "[",
    "(backslash)", "]", "^", "_", "(backtick)", "a", "b", "c", "d", "e", "f", "g",
    "h", "i", "j", "k", "l", "m", "n", "o", "p", "q", "r", "s",
    "t", "u", "v", "w", "x", "y", "z", "{", "|", "}", "~" >>

CharCode(c) == 31 + CHOOSE i \in DOMAIN Ascii : Ascii[i] = c

\* a < b for two TEXT values under the BINARY collation (memcmp)
RECURSIVE TextLess(_, _)
TextLess(a, b) ==
    IF b = <<>> THEN FALSE
    ELSE IF a = <<>> THEN TRUE
    ELSE IF a[1] = b[1] THEN TextLess(Tail(a), Tail(b))
    ELSE CharCode(a[1]) < CharCode(b[1])

\* a < b for two column values in ORDER BY: NULL sorts before every text
SqlLess(a, b) ==
    IF a.isNone THEN ~b.isNone
    ELSE IF b.isNone THEN FALSE
    ELSE TextLess(a.s, b.s)

\* s LIKE p from positions i of s and j of p: % is any run of characters, _
\* any one character, letters compare without case
RECURSIVE Like(_, _, _, _)
Like(s, i, p, j) ==
    IF j > Len(p) THEN i > Len(s)
    ELSE IF p[j] = "%"
         THEN \E k \in i..(Len(s) + 1) : Like(s, k, p, j + 1)
         ELSE /\ i <= Len(s)
              /\ p[j] = "_" \/ LowerChar(p[j]) = LowerChar(s[i])
              /\ Like(s, i + 1, p, j + 1)

RECURSIVE JsonItems(_)
JsonItems(list) ==
    IF list = <<>> THEN <<>>
    ELSE <<"\"">> \o Head(list) \o <<"\"">> \o
         (IF Len(list) > 1 THEN <<",", " ">> \o JsonItems(Tail(list)) ELSE <<>>)

\* json.dumps(list) of a list of strings that need no escape
JsonDumps(list) == <<"[">> \o JsonItems(list) \o <<"]">>

\* the strings of the JSON array text from position i on; open tells whether
\* position i is inside a string, cur is the string read so far
RECURSIVE JsonStrings(_, _, _, _)
JsonStrings(text, i, open, cur) ==
    IF i > Len(text) THEN <<>>
    ELSE IF text[i] = "\""
         THEN IF open
              THEN <<cur>> \o JsonStrings(text, i + 1, FALSE, <<>>)
              ELSE JsonStrings(text, i + 1, TRUE, <<>>)
         ELSE JsonStrings(text, i + 1, open,
                          IF open THEN Append(cur, text[i]) ELSE cur)

\* json.loads(text) if text else []
JsonLoads(text) == IF text = <<>> THEN <<>> ELSE JsonStrings(text, 1, FALSE, <<>>)

Digits == <<"0", "1", "2", "3", "4", "5", "6", "7", "8", "9">>

TwoDigits(n) == <<Digits[((n \div 10) % 10) + 1], Digits[(n % 10) + 1]>>

\* An instant is a number of hours; its day is t \div 24, its hour t % 24.
\* Of YYYY-MM-DD HH:MM:SS the model writes the day and the hour, "DD HH":
\* year, month, minutes and seconds are the same in every instant it reaches.

\* CURRENT_TIMESTAMP at instant t (UTC): date, a space, time
CurrentTimestamp(t) == TwoDigits(t \div 24) \o <<" ">> \o TwoDigits(t % 24)

\* datetime.isoformat() of the local instant t: date, "T", time
IsoFormat(t) == TwoDigits(t \div 24) \o <<"T">> \o TwoDigits(t % 24)

-----------------------------------------------------------------------------
(* The store: table posts *)

\* the row the INSERT of save_post writes for post p at instant now, the
\* lists as JSON text and fetched_at by its DEFAULT CURRENT_TIMESTAMP
Row(p, now) ==
    [id |-> p.id, created_at |-> p.created_at, content |-> p.content,
     url |-> p.url, media_urls |-> JsonDumps(p.media_urls),
     replies_count |-> p.replies_count, reblogs_count |-> p.reblogs_count,
     favourites_count |-> p.favourites_count,
     sentiment_score |-> p.sentiment_score,
     sentiment_label |-> p.sentiment_label,
     mentioned_stocks |-> JsonDumps(p.mentioned_stocks),
     keywords |-> JsonDumps(p.keywords),
     fetched_at |-> CurrentTimestamp(now)]

\* id TEXT PRIMARY KEY: a row holds the same id. SQLite lets a TEXT primary
\* key be NULL, and a NULL id conflicts with no row
Conflicts(rows, id) == ~id.isNone /\ \E i \in DOMAIN rows : rows[i].id = id

\* INSERT OR IGNORE INTO posts (...) VALUES (...): the rows after it
InsertOrIgnore(rows, p, now) ==
    IF Conflicts(rows, p.id) THEN rows ELSE Append(rows, Row(p, now))

\* what the database does during a call: it works ("none"), it cannot be
\* opened (sqlite3.connect raises), or the statement fails (execute raises)
Faults == {"none", "open", "exec"}

DbError == "sqlite3.OperationalError"

\* logger.info(f"... {post.id[:20]}..."): None[:20] raises TypeError
LogNewExc(p) == IF p.id.isNone THEN "TypeError" ELSE NoExc

\* save_post(p): the rows after the call, the value returned and the
\* exception that leaves the call. sqlite3.connect is called before the try;
\* the INSERT, the commit and the log line are inside it
SavePost(rows, p, fault, now) ==
    IF fault = "open"
    THEN [db |-> rows, ret |-> FALSE, exc |-> DbError]
    ELSE IF fault = "exec"
    THEN IF ExceptException(DbError)
         THEN [db |-> rows, ret |-> FALSE, exc |-> NoExc]
         ELSE [db |-> rows, ret |-> FALSE, exc |-> DbError]
    ELSE LET after  == InsertOrIgnore(rows, p, now)
             is_new == Len(after) > Len(rows)
             e      == IF is_new THEN LogNewExc(p) ELSE NoExc
         IN  IF e = NoExc
             THEN [db |-> after, ret |-> is_new, exc |-> NoExc]
             ELSE IF ExceptException(e)
                  THEN [db |-> after, ret |-> FALSE, exc |-> NoExc]
                  ELSE [db |-> after, ret |-> FALSE, exc |-> e]

\* what analyze_post may return for p; p itself stands for the call that raises
PostAnalyses(p) ==
    IF AnalyzeExc(p) # NoExc THEN {p}
    ELSE {AnalyzePost(p, stocks) : stocks \in MentionedStocks(p.content.s)}

\* what analyze_post may return for each post of the list
Analyses(posts) ==
    {a \in [DOMAIN posts -> UNION {PostAnalyses(posts[i]) : i \in DOMAIN posts}] :
        \A i \in DOMAIN posts : a[i] \in PostAnalyses(posts[i])}

\* the for loop of get_new_posts from post i on: analysed[i] is what
\* analyze_post returns for post i, done counts the posts analysed and saved
RECURSIVE NewPostsLoop(_, _, _, _, _, _)
NewPostsLoop(rows, analysed, i, new_posts, fault, now) ==
    IF i > Len(analysed)
    THEN [db |-> rows, ret |-> new_posts, exc |-> NoExc, done |-> i - 1]
    ELSE IF AnalyzeExc(analysed[i]) # NoExc
    THEN [db |-> rows, ret |-> <<>>, exc |-> AnalyzeExc(analysed[i]),
          done |-> i - 1]
    ELSE LET r == SavePost(rows, analysed[i], fault, now)
         IN  IF r.exc # NoExc
             THEN [db |-> r.db, ret |-> <<>>, exc |-> r.exc, done |-> i - 1]
             ELSE NewPostsLoop(r.db, analysed, i + 1,
                               IF r.ret THEN Append(new_posts, analysed[i])
                                        ELSE new_posts,
                               fault, now)

\* get_new_posts(): fetched is what fetch_posts returned
GetNewPosts(rows, fetched, analysed, fault, now) ==
    IF fetched.exc # NoExc
    THEN [db |-> rows, ret |-> <<>>, exc |-> fetched.exc, done |-> 0]
    ELSE NewPostsLoop(rows, analysed, 1, <<>>, fault, now)

\* a SELECT without ORDER BY: the rows in rowid order
RowidOrder(rows) == {rows}

\* the orders ORDER BY created_at DESC may return the rows in
OrderByCreatedAtDesc(rows) ==
    {[k \in DOMAIN rows |-> rows[o[k]]] :
        o \in {o \in Orderings(DOMAIN rows) :
                  \A k \in 1..(Len(rows) - 1) :
                      ~SqlLess(rows[o[k]].created_at, rows[o[k + 1]].created_at)}}

\* f'%"{stock_code}"%'
LikePattern(stock_code) == <<"%", "\"">> \o stock_code \o <<"\"", "%">>

\* `if stock_code:` is false for None and for ""
Truthy(v) == ~v.isNone /\ v.s # <<>>

\* the WHERE clause of get_posts_with_stock_mentions
MentionsWhere(row, stock_code) ==
    IF Truthy(stock_code)
    THEN Like(row.mentioned_stocks, 1, LikePattern(stock_code.s), 1)
    ELSE row.mentioned_stocks # <<"[", "]">>

\* cursor.fetchall() of the SELECT of get_posts_with_stock_mentions
MentionsRows(rows, stock_code) ==
    LET Where(row) == MentionsWhere(row, stock_code)
    IN  OrderByCreatedAtDesc(SelectSeq(rows, Where))

\* the dict built for one row
PostDict(row) ==
    [id |-> row.id, created_at |-> row.created_at, content |-> row.content,
     url |-> row.url, media_urls |-> JsonLoads(row.media_urls),
     replies_count |-> row.replies_count, reblogs_count |-> row.reblogs_count,
     favourites_count |-> row.favourites_count,
     sentiment_score |-> row.sentiment_score,
     sentiment_label |-> row.sentiment_label,
     mentioned_stocks |-> JsonLoads(row.mentioned_stocks),
     keywords |-> JsonLoads(row.keywords)]

\* get_posts_with_stock_mentions(stock_code), selected being what fetchall
\* returns: connect is outside the try, and the try has no except clause
GetPostsWithStockMentions(selected, fault) ==
    IF fault # "none"
    THEN [ret |-> <<>>, exc |-> DbError]
    ELSE [ret |-> [k \in DOMAIN selected |-> PostDict(selected[k])],
          exc |-> NoExc]

\* since = (datetime.now() - timedelta(hours=hours)).isoformat(), the local
\* clock being utc_offset hours ahead of UTC
Since(now, utc_offset, hours) == IsoFormat(now + utc_offset - hours)

\* the WHERE clause of generate_report: fetched_at > ?, both TEXT
ReportWhere(row, since) == TextLess(since, row.fetched_at)

\* cursor.fetchall() of the SELECT of generate_report
ReportRows(rows, since) ==
    LET Where(row) == ReportWhere(row, since)
    IN  OrderByCreatedAtDesc(SelectSeq(rows, Where))

MaxShown == 5

MaxContent == 100

\* row[2][:100] + "..." if len(row[2]) > 100 else row[2]
Shorten(content) ==
    IF Len(content) > MaxContent
    THEN Prefix(content, MaxContent) \o <<".", ".", ".">>
    ELSE content

Glyph(sentiment) ==
    IF sentiment = "positive" THEN "smile"
    ELSE IF sentiment = "negative" THEN "angry"
    ELSE "neutral"

\* generate_report(hours), selected being what fetchall returns: no try at
\* all, and len(row[2]) raises TypeError on a NULL content
GenerateReport(selected, fault) ==
    LET shown == Prefix(selected, MaxShown)
        none  == [rows |-> <<>>, empty |-> TRUE, count |-> 0, stocks |-> {},
                  shown |-> <<>>]
    IN  IF fault # "none"
        THEN [ret |-> none, exc |-> DbError]
        ELSE IF selected = <<>>
        THEN [ret |-> none, exc |-> NoExc]
        ELSE IF \E k \in DOMAIN shown : shown[k].content.isNone
        THEN [ret |-> none, exc |-> "TypeError"]
        ELSE [ret |-> [rows |-> selected, empty |-> FALSE,
                       count |-> Len(selected),
                       stocks |-> UNION {Range(JsonLoads(selected[k].mentioned_stocks)) :
                                            k \in DOMAIN selected},
                       shown |-> [k \in DOMAIN shown |->
                                     [content |-> Shorten(shown[k].content.s),
                                      glyph |-> Glyph(shown[k].sentiment_label),
                                      url |-> shown[k].url]]],
              exc |-> NoExc]

-----------------------------------------------------------------------------
(* Inputs *)

Great_news == <<"G", "r", "e", "a", "t", " ", "n", "e", "w", "s", " ", "f", "o", "r", " ", "$", "T", "S", "L", "A", " ", "a", "n", "d", " ", "#", "A", "A", "P", "L", ",", " ", "b", "e", "s", "t", " ", "e", "a", "r", "n", "i", "n", "g", "s", " ", "e", "v", "e", "r", "!">>

Many_positive == <<"g", "r", "e", "a", "t", " ", "g", "o", "o", "d", " ", "e", "x", "c", "e", "l", "l", "e", "n", "t", " ", "a", "m", "a", "z", "i", "n", "g", " ", "f", "a", "n", "t", "a", "s", "t", "i", "c", " ", "b", "e", "s", "t", " ", "w", "i", "n">>

Many_negative == <<"b", "a", "d", " ", "t", "e", "r", "r", "i", "b", "l", "e", " ", "a", "w", "f", "u", "l", " ", "w", "o", "r", "s", "t", " ", "f", "a", "i", "l", " ", "h", "a", "t", "e", " ", "s", "a", "d">>

\* a run of more than five capitals, a lower-case tag, a symbol twice
Long_ticker == <<"$", "A", "B", "C", "D", "E", "F", "G", " ", "#", "x", " ", "$", "T", "S", "L", "A", " ", "#", "T", "S", "L", "A">>

\* twelve keywords among fourteen tokens, split by spaces, a tab and a newline
Many_words == <<"a", "l", "p", "h", "a", " ", "b", "r", "a", "v", "o", " ", "x", "-", "r", "a", "y", "\t", "c", "h", "a", "r", "l", "i", "e", " ", "d", "e", "l", "t", "a", " ", "e", "c", "h", "o", " ", "h", "o", "t", "e", "l", " ", "i", "n", "d", "i", "a", "\n", "j", "u", "l", "i", "e", "t", " ", "o", "s", "c", "a", "r", " ", "q", "u", "e", "b", "e", "c", " ", "r", "o", "m", "e", "o", " ", "s", "i", "e", "r", "r", "a", " ", "t", "a", "n", "g", "o">>

SampleTexts ==
    {Great_news, Many_positive, Many_negative, Long_ticker, Many_words, <<>>}

Vocabulary == <<
    <<"G", "r", "e", "a", "t">>,
    <<"g", "r", "e", "a", "t">>,
    <<"w", "i", "n", "n", "i", "n", "g">>,
    <<"d", "i", "s", "l", "i", "k", "e">>,
    <<"b", "a", "d">>,
    <<"$", "T", "S", "L", "A">>,
    <<"#", "A", "A", "P", "L", ",">>,
    <<"e", "a", "r", "n", "i", "n", "g", "s">> >>

MaxWords == 2

\* the texts of 1..MaxWords words of the vocabulary, and the samples
Texts ==
    SampleTexts \cup
    UNION {{Join([i \in 1..n |-> Vocabulary[ws[i]]]) :
               ws \in [1..n -> DOMAIN Vocabulary]} : n \in 1..MaxWords}

g1 == <<"g", "1">>

g2 == <<"g", "2">>

g3 == <<"g", "3">>

Item(guid, title, link, pubDate, description) ==
    [guid |-> guid, title |-> title, link |-> link, pubDate |-> pubDate,
     description |-> description]

\* a complete item
ItemA == Item(Node(g1), Node(<<"A">>), Node(<<"u", "1">>), Node(<<"d", "2">>),
              Node(<<"G", "r", "e", "a", "t", " ", "$", "T", "S", "L", "A">>))

\* a complete item
ItemB == Item(Node(g2), Node(<<"B">>), Node(<<"u", "2">>), Node(<<"d", "1">>),
              Node(<<"b", "a", "d", " ", "n", "e", "w", "s">>))

\* no <guid>
ItemNoGuid == Item(Absent, Node(<<"C">>), Node(<<"u", "3">>), Node(<<"d", "3">>),
                   Node(<<"$", "T", "S", "L", "A", " ", "#", "A", "A", "P", "L", " ", "w", "i", "n">>))

\* <description/>: present, no text
ItemNoDescText == Item(Node(g3), Node(<<"D">>), Node(<<"u", "4">>),
                       Node(<<"d", "1">>), NoText)

\* <guid/>: present, no text
ItemGuidNoText == Item(NoText, Node(<<"E">>), Node(<<"u", "5">>),
                       Node(<<"d", "1">>), Node(<<"h", "e", "l", "l", "o", " ", "#", "A", "A", "P", "L">>))

\* no <description>, no <link>, no <pubDate>; the guid of ItemA
ItemTitleOnly == Item(Node(g1), Node(<<"l", "i", "e", "s">>), Absent, Absent, Absent)

\* the items the fetch_posts calls of SpecFetch draw from
FetchItemPool == {ItemA, ItemNoGuid, ItemNoDescText, ItemTitleOnly}

MaxItems == 2

\* the feeds of at most n items of pool
Feeds(pool, n) == UNION {[1..k -> pool] : k \in 0..n}

\* the answers of one source: an error, or a feed of at most n items
Answers(pool, n) ==
    {[kind |-> k, items |-> <<>>] : k \in {"timeout", "http_error", "bad_xml"}}
    \cup {[kind |-> "ok", items |-> f] : f \in Feeds(pool, n)}

-----------------------------------------------------------------------------
(* SpecAnalyze: analyze_post applied, and applied again, to one post *)

MaxRuns == 2

\* no fetch_posts call yet; the inputs of the call to come
NotFetched(answers, limit) ==
    [called |-> FALSE, answers |-> answers, limit |-> limit, posts |-> <<>>,
     requested |-> <<>>, exc |-> NoExc]

NoAnswers == [i \in DOMAIN urls_to_try |-> [kind |-> "timeout", items |-> <<>>]]

NoCall == [op |-> "none"]

\* run_daemon_mode is not running
NoDaemon == [pc |-> "off"]

\* no NitterClient call is running
NoNitter == [pc |-> "off"]

InitAnalyze ==
    /\ post \in {TruthPost(PyStr(g1), PyStr(<<"d", "1">>), PyStr(t),
                           PyStr(<<"u", "1">>)) : t \in Texts}
    /\ runs = 0
    /\ fetch = NotFetched(NoAnswers, DefaultLimit)
    /\ db = <<>>
    /\ clock = 0
    /\ last = NoCall
    /\ daemon = NoDaemon
    /\ nitter = NoNitter

AnalyzeCall ==
    /\ runs < MaxRuns
    /\ AnalyzeExc(post) = NoExc
    /\ \E stocks \in MentionedStocks(post.content.s) :
           post' = AnalyzePost(post, stocks)
    /\ runs' = runs + 1
    /\ UNCHANGED <<fetch, db, clock, last, daemon, nitter>>

NextAnalyze == AnalyzeCall

SpecAnalyze == InitAnalyze /\ [][NextAnalyze]_vars

-----------------------------------------------------------------------------
(* SpecFetch: one fetch_posts call for every pair of source answers *)

NoPost == TruthPost(PyStr(<<>>), PyStr(<<>>), PyStr(<<>>), PyStr(<<>>))

InitFetch ==
    /\ post = NoPost
    /\ runs = 0
    /\ fetch \in {NotFetched(answers, limit) :
                     answers \in [DOMAIN urls_to_try ->
                                     Answers(FetchItemPool, MaxItems)],
                     limit \in (0..MaxItems) \cup {DefaultLimit}}
    /\ db = <<>>
    /\ clock = 0
    /\ last = NoCall
    /\ daemon = NoDaemon
    /\ nitter = NoNitter

FetchPostsCall ==
    /\ ~fetch.called
    /\ LET r == FetchPosts(fetch.answers, fetch.limit)
       IN  fetch' = [fetch EXCEPT !.called = TRUE, !.posts = r.posts,
                                  !.requested = r.requested, !.exc = r.exc]
    /\ UNCHANGED <<post, runs, db, clock, last, daemon, nitter>>

NextFetch == FetchPostsCall

SpecFetch == InitFetch /\ [][NextFetch]_vars

-----------------------------------------------------------------------------
(* The store machine: the calls that read and write table posts *)

\* the items the feeds of the store machine draw from
StoreItemPool == {ItemA, ItemB, ItemGuidNoText, ItemTitleOnly, ItemNoDescText}

\* the posts handed to save_post: each item parsed, and analysed where
\* analyze_post returns
SavePool == UNION {PostAnalyses(ParseItem(item)) : item \in StoreItemPool}

\* the posts the report and --stock commands find stored
QueryPool ==
    UNION {PostAnalyses(ParseItem(item)) : item \in {ItemA, ItemB, ItemGuidNoText}}

MaxBatch == 2

MaxRows == 2

\* what the two sources answer to get_new_posts: the first one answers, or
\* it times out and the second one answers
StoreAnswers ==
    {<<a, [kind |-> "bad_xml", items |-> <<>>]>> :
        a \in Answers(StoreItemPool, MaxBatch)}
    \cup {<<[kind |-> "timeout", items |-> <<>>], b>> :
             b \in Answers(StoreItemPool, MaxBatch)}

\* the batches of get_new_posts: for each pair of answers, what
\* fetch_posts(username) returns and what the analyze_post calls may return
StoreBatches ==
    UNION {{[fetched |-> FetchPosts(answers, DefaultLimit), analysed |-> a] :
               a \in Analyses(FetchPosts(answers, DefaultLimit).posts)} :
              answers \in StoreAnswers}

TSLA == <<"T", "S", "L", "A">>

\* the stock_code arguments: omitted, empty, symbols, and LIKE patterns
StockCodes ==
    {PyNone, PyStr(<<>>), PyStr(TSLA), PyStr(<<"t", "s", "l", "a">>),
     PyStr(<<"T", "S">>), PyStr(<<"%">>)}

DefaultHours == 24

ReportHours == {1, DefaultHours}

\* how far the local clock of datetime.now() is ahead of UTC, in hours
UtcOffsets == {0, 1}

MaxClock == 47

\* the tracker constructed on an empty database, on day 1 at 22:00 UTC
Init ==
    /\ post = NoPost
    /\ runs = 0
    /\ fetch = NotFetched(NoAnswers, DefaultLimit)
    /\ db = <<>>
    /\ clock = 46
    /\ last = NoCall
    /\ daemon = NoDaemon
    /\ nitter = NoNitter

\* tracker.save_post(p) for a post of the pool
SavePostCall(pool) ==
    /\ Len(db) < MaxRows
    /\ \E p \in pool, fault \in Faults :
           LET r == SavePost(db, p, fault, clock)
           IN  /\ db' = r.db
               /\ last' = [op |-> "save_post", post |-> p, fault |-> fault,
                           ret |-> r.ret, exc |-> r.exc, dbBefore |-> db]
    /\ UNCHANGED <<post, runs, fetch, clock, daemon, nitter>>

\* tracker.get_new_posts()
GetNewPostsCall ==
    /\ \E batch \in StoreBatches, fault \in Faults :
           /\ Len(db) + Len(batch.fetched.posts) <= MaxRows
           /\ LET r == GetNewPosts(db, batch.fetched, batch.analysed, fault, clock)
              IN  /\ db' = r.db
                  /\ last' = [op |-> "get_new_posts",
                              fetched |-> batch.fetched.posts,
                              fault |-> fault, ret |-> r.ret, exc |-> r.exc,
                              done |-> r.done, dbBefore |-> db]
    /\ UNCHANGED <<post, runs, fetch, clock, daemon, nitter>>

\* tracker.get_posts_with_stock_mentions(stock_code)
MentionsCall ==
    /\ \E stock_code \in StockCodes, fault \in Faults :
           \E selected \in MentionsRows(db, stock_code) :
               LET r == GetPostsWithStockMentions(selected, fault)
               IN  last' = [op |-> "get_posts_with_stock_mentions",
                            stock_code |-> stock_code, fault |-> fault,
                            ret |-> r.ret, exc |-> r.exc, dbBefore |-> db]
    /\ UNCHANGED <<post, runs, fetch, db, clock, daemon, nitter>>

\* tracker.generate_report(hours)
ReportCall ==
    /\ \E hours \in ReportHours, utc_offset \in UtcOffsets, fault \in Faults :
           \E selected \in ReportRows(db, Since(clock, utc_offset, hours)) :
               LET r == GenerateReport(selected, fault)
               IN  last' = [op |-> "generate_report", hours |-> hours,
                            utc_offset |-> utc_offset, fault |-> fault,
                            ret |-> r.ret, exc |-> r.exc, dbBefore |-> db]
    /\ UNCHANGED <<post, runs, fetch, db, clock, daemon, nitter>>

\* an hour passes
Tick ==
    /\ clock < MaxClock
    /\ clock' = clock + 1
    /\ UNCHANGED <<post, runs, fetch, db, last, daemon, nitter>>

\* the calls of the report and --stock commands on a store that fills
Next == SavePostCall(QueryPool) \/ MentionsCall \/ ReportCall \/ Tick

Spec == Init /\ [][Next]_vars

\* the fetch pipeline writing the store
NextStore == SavePostCall(SavePool) \/ GetNewPostsCall

SpecStore == Init /\ [][NextStore]_vars

-----------------------------------------------------------------------------
(* SpecDaemon: run_daemon_mode, one pass of `while True` after another *)

\* time.sleep(60) of the `except Exception` handler
BackoffSeconds == 60

DefaultInterval == 900

\* the --interval values
Intervals == {300, DefaultInterval}

MaxIterations == 2

\* the items the feeds of the daemon draw from
DaemonItemPool == {ItemA, ItemB, ItemNoDescText}

\* the batches of the get_new_posts call of one iteration
DaemonBatches ==
    UNION {{[fetched |-> FetchPosts(answers, DefaultLimit), analysed |-> a] :
               a \in Analyses(FetchPosts(answers, DefaultLimit).posts)} :
              answers \in {<<a, [kind |-> "bad_xml", items |-> <<>>]>> :
                              a \in Answers(DaemonItemPool, MaxBatch)}}

\* run_daemon_mode(tracker, interval) entered: pc is the statement the loop
\* stands at ("check" the body of the try up to the sleep, "sleep"
\* time.sleep(interval), "backoff" time.sleep(60), "returned" and "raised" the
\* two ways out), iteration numbers the passes of `while True`, flagged holds
\* the posts of the pass logged as mentioning stocks, errors counts the
\* logger.error lines, exc is the exception that left the function
DaemonStart(interval) ==
    [pc |-> "check", interval |-> interval, iteration |-> 1, flagged |-> <<>>,
     errors |-> 0, interrupted |-> FALSE, exc |-> NoExc]

\* an exception raised inside the try block: `except KeyboardInterrupt`
\* breaks, `except Exception` logs and backs off, anything else propagates
TryHandler(e) ==
    IF e = "KeyboardInterrupt" THEN "returned"
    ELSE IF ExceptException(e) THEN "backoff"
    ELSE "raised"

\* the seconds the loop sleeps after an iteration that ended at pc
IntervalWait(pc, interval) == interval

\* time.sleep(interval) at the end of the try, time.sleep(60) in the handler
SleepSeconds(pc, interval) == IF pc = "backoff" THEN BackoffSeconds ELSE interval

\* `if post.mentioned_stocks:` over new_posts: the posts that are logged
HasStocks(p) == p.mentioned_stocks # <<>>

InitDaemon ==
    /\ post = NoPost
    /\ runs = 0
    /\ fetch = NotFetched(NoAnswers, DefaultLimit)
    /\ db = <<>>
    /\ clock = 46
    /\ last = NoCall
    /\ daemon \in {DaemonStart(interval) : interval \in Intervals}
    /\ nitter = NoNitter

\* the body of the try up to the sleep: get_new_posts, then the log lines
DaemonCheck ==
    /\ daemon.pc = "check"
    /\ daemon.iteration <= MaxIterations
    /\ \E batch \in DaemonBatches, fault \in Faults :
           /\ Len(db) + Len(batch.fetched.posts) <= MaxRows
           /\ LET r == GetNewPosts(db, batch.fetched, batch.analysed, fault, clock)
              IN  /\ db' = r.db
                  /\ last' = [op |-> "get_new_posts",
                              fetched |-> batch.fetched.posts,
                              fault |-> fault, ret |-> r.ret, exc |-> r.exc,
                              done |-> r.done, dbBefore |-> db]
                  /\ IF r.exc = NoExc
                     THEN daemon' = [daemon EXCEPT
                                        !.pc = "sleep",
                                        !.flagged = SelectSeq(r.ret, HasStocks)]
                     ELSE daemon' = [daemon EXCEPT
                                        !.pc = TryHandler(r.exc),
                                        !.flagged = <<>>,
                                        !.errors = @ + 1,
                                        !.exc = IF TryHandler(r.exc) = "raised"
                                                THEN r.exc ELSE NoExc]
    /\ UNCHANGED <<post, runs, fetch, clock, nitter>>

\* a sleep runs to its end and `while True` starts the next pass
DaemonSleep ==
    /\ daemon.pc \in {"sleep", "backoff"}
    /\ last' = [op |-> "sleep",
                seconds |-> SleepSeconds(daemon.pc, daemon.interval)]
    /\ daemon' = [daemon EXCEPT !.pc = "check", !.iteration = @ + 1,
                                !.flagged = <<>>]
    /\ UNCHANGED <<post, runs, fetch, db, clock, nitter>>

\* Ctrl-C inside the try block, while the sources are requested or during
\* time.sleep(interval): `except KeyboardInterrupt` logs and breaks
InterruptInTry ==
    /\ daemon.pc \in {"check", "sleep"}
    /\ daemon' = [daemon EXCEPT !.pc = TryHandler("KeyboardInterrupt"),
                                !.interrupted = TRUE]
    /\ UNCHANGED <<post, runs, fetch, db, clock, last, nitter>>

\* Ctrl-C during time.sleep(60): the call stands in the except clause, which
\* no handler of the try statement covers
InterruptInBackoff ==
    /\ daemon.pc = "backoff"
    /\ daemon' = [daemon EXCEPT !.pc = "raised", !.interrupted = TRUE,
                                !.exc = "KeyboardInterrupt"]
    /\ UNCHANGED <<post, runs, fetch, db, clock, last, nitter>>

NextDaemon == DaemonCheck \/ DaemonSleep \/ InterruptInTry \/ InterruptInBackoff

SpecDaemon == InitDaemon /\ [][NextDaemon]_vars

-----------------------------------------------------------------------------
(* SpecNitter: the cursor pagination of NitterClient (src/nitter_search.py) *)

\* the two calls that page through a timeline
NitterMethods == {"get_user_tweets", "search_tweets"}

\* the cursor tokens a "show more" link may carry
NitterCursors == {"c1", "c2"}

\* what the show-more lookup finds in a page: no link, a link whose href
\* holds no cursor=..., or a link with a cursor
NoShowMore == [link |-> FALSE, cursor |-> ""]

NoCursorMatch == [link |-> TRUE, cursor |-> ""]

ShowMore(c) == [link |-> TRUE, cursor |-> c]

\* _parse_tweet_element(element): a Tweet for a timeline item that holds a
\* tweet, None for an ad, for an item without tweet link or content and for
\* an item whose parsing raises
ElementKinds == {"tweet", "ad"}

ParsesToTweet(element) == element = "tweet"

MaxPageItems == 2

MaxLimit == 2

\* what the instance answers to one GET: an error (transport, HTTP status),
\* or a page of timeline items and a show-more block
NitterResponses ==
    {[kind |-> "error", items |-> <<>>, more |-> NoShowMore]}
    \cup {[kind |-> "page", items |-> items, more |-> more] :
             items \in UNION {[1..k -> ElementKinds] : k \in 0..MaxPageItems},
             more \in {NoShowMore, NoCursorMatch}
                      \cup {ShowMore(c) : c \in NitterCursors}}

\* the for loop over tweet_elements from element i on: a tweet is appended
\* for each element that parses, and the loop breaks at `limit` tweets
RECURSIVE CollectTweets(_, _, _, _, _)
CollectTweets(tweets, items, i, limit, cursor) ==
    IF i > Len(items) THEN tweets
    ELSE IF ParsesToTweet(items[i])
         THEN LET got == Append(tweets, [page |-> cursor, element |-> i])
              IN  IF Len(got) >= limit THEN got
                  ELSE CollectTweets(got, items, i + 1, limit, cursor)
         ELSE CollectTweets(tweets, items, i + 1, limit, cursor)

\* one pass of the body of `while len(tweets) < limit`, given the response
\* to its GET: the tweets and the cursor after it, and whether it breaks
NitterPass(tweets, cursor, limit, response) ==
    IF response.kind = "error"
    THEN [tweets |-> tweets, cursor |-> cursor, break |-> TRUE]
    ELSE IF response.items = <<>>
    THEN [tweets |-> tweets, cursor |-> cursor, break |-> TRUE]
    ELSE LET got == CollectTweets(tweets, response.items, 1, limit, cursor)
         IN  IF response.more.link /\ response.more.cursor # ""
             THEN [tweets |-> got, cursor |-> response.more.cursor,
                   break |-> FALSE]
             ELSE [tweets |-> got, cursor |-> cursor, break |-> TRUE]

\* get_user_tweets(username, limit) or search_tweets(query, limit) entered:
\* pc is "while" at the loop test, "get" inside the body before the GET,
\* "returned" after `return tweets[:limit]`
NitterStart(method, limit) ==
    [pc |-> "while", method |-> method, limit |-> limit, tweets |-> <<>>,
     cursor |-> "", ret |-> <<>>]

InitNitter ==
    /\ post = NoPost
    /\ runs = 0
    /\ fetch = NotFetched(NoAnswers, DefaultLimit)
    /\ db = <<>>
    /\ clock = 0
    /\ last = NoCall
    /\ daemon = NoDaemon
    /\ nitter \in {NitterStart(method, limit) :
                      method \in NitterMethods, limit \in 0..MaxLimit}

\* the test of `while len(tweets) < limit`, and the return when it fails
NitterWhile ==
    /\ nitter.pc = "while"
    /\ IF Len(nitter.tweets) < nitter.limit
       THEN nitter' = [nitter EXCEPT !.pc = "get"]
       ELSE nitter' = [nitter EXCEPT !.pc = "returned",
                                     !.ret = Prefix(nitter.tweets, nitter.limit)]
    /\ UNCHANGED <<post, runs, fetch, db, clock, last, daemon>>

\* the body of the loop: the GET of the page at the cursor, the parsing of
\* its items, the show-more lookup, and time.sleep(1) or the break
NitterPage ==
    /\ nitter.pc = "get"
    /\ \E response \in NitterResponses :
           LET r == NitterPass(nitter.tweets, nitter.cursor, nitter.limit, response)
           IN  IF r.break
               THEN nitter' = [nitter EXCEPT !.pc = "returned",
                                             !.tweets = r.tweets,
                                             !.ret = Prefix(r.tweets, nitter.limit)]
               ELSE nitter' = [nitter EXCEPT !.pc = "while",
                                             !.tweets = r.tweets,
                                             !.cursor = r.cursor]
    /\ UNCHANGED <<post, runs, fetch, db, clock, last, daemon>>

NextNitter == NitterWhile \/ NitterPage

SpecNitter == InitNitter /\ [][NextNitter]_vars

\* the call keeps running: the loop test is evaluated, and every GET ends
\* (timeout=30) with a response or an error
SpecNitterFair == SpecNitter /\ WF_vars(NitterWhile) /\ WF_vars(NitterPage)

-----------------------------------------------------------------------------
(* Claims about the store, checked under SpecStore *)

\* a stored row holds this id (as Python compares: None equals None)
IdPresent(rows, id) == \E i \in DOMAIN rows : rows[i].id = id

\* C1: for every store state and every post P whose id is already in the
\* store, save_post(P), whatever the other fields of P, leaves every stored
\* row unchanged, adds no row, and returns False.
C1_ResaveChangesNothing ==
    (/\ last.op = "save_post"
     /\ last.fault = "none"
     /\ IdPresent(last.dbBefore, last.post.id)) =>
        /\ db = last.dbBefore
        /\ last.ret = FALSE
        /\ last.exc = NoExc

\* C2: without a persistence error save_post(P) returns True exactly when no
\* row of P's id was stored before, and then a row with P's id and fields is
\* stored; hence get_new_posts reports an id as new only if it was not
\* stored before, and at most once.
C2_NewExactlyWhenAbsent ==
    /\ (last.op = "save_post" /\ last.fault = "none") =>
           /\ last.exc = NoExc
           /\ last.ret <=> ~IdPresent(last.dbBefore, last.post.id)
           /\ last.ret => /\ Len(db) = Len(last.dbBefore) + 1
                          /\ db[Len(db)] = Row(last.post, clock)
    /\ (last.op = "get_new_posts" /\ last.fault = "none"
        /\ last.exc = NoExc) =>
           /\ \A k \in DOMAIN last.ret :
                  ~IdPresent(last.dbBefore, last.ret[k].id)
           /\ \A j, k \in DOMAIN last.ret :
                  last.ret[j].id = last.ret[k].id => j = k

\* C6: get_new_posts never raises and never abandons a batch: whatever the
\* feed holds (nodes absent or without text included) and whatever is
\* stored, every fetched post is analysed and saved and a list is returned.
C6_BatchNeverAbandoned ==
    (last.op = "get_new_posts" /\ last.fault = "none") =>
        /\ last.exc = NoExc
        /\ last.done = Len(last.fetched)

-----------------------------------------------------------------------------
(* Claims about the store, checked under Spec *)

\* C7: a persistence error never leaves a store operation as an exception:
\* save_post returns False, get_posts_with_stock_mentions and the report
\* query give an empty result, and the store is unchanged.
C7_PersistenceErrorsCaught ==
    (/\ last.op \in {"save_post", "get_posts_with_stock_mentions",
                     "generate_report"}
     /\ last.fault # "none") =>
        /\ last.exc = NoExc
        /\ db = last.dbBefore
        /\ last.op = "save_post" => last.ret = FALSE
        /\ last.op = "get_posts_with_stock_mentions" => last.ret = <<>>
        /\ last.op = "generate_report" => last.ret.empty

\* the stored rows whose ticker list holds the symbol, or is not empty when
\* no symbol is given
RowsMentioning(rows, stock_code) ==
    {i \in DOMAIN rows :
        IF stock_code.isNone
        THEN JsonLoads(rows[i].mentioned_stocks) # <<>>
        ELSE stock_code.s \in Range(JsonLoads(rows[i].mentioned_stocks))}

\* C8: get_posts_with_stock_mentions(code) returns exactly the stored posts
\* whose mentioned_stocks list holds code as an element, for every non-empty
\* code; with code omitted, exactly those whose list is not empty.
C8_ExactlyTheMentions ==
    (/\ last.op = "get_posts_with_stock_mentions"
     /\ last.fault = "none"
     /\ last.stock_code.isNone \/ last.stock_code.s # <<>>) =>
        /\ Len(last.ret) = Cardinality(RowsMentioning(db, last.stock_code))
        /\ \A k \in DOMAIN last.ret :
               \E i \in RowsMentioning(db, last.stock_code) :
                   last.ret[k] = PostDict(db[i])

DigitValue(c) == (CHOOSE i \in DOMAIN Digits : Digits[i] = c) - 1

\* the instant a stored fetched_at text "DD HH" names
FetchInstant(text) ==
    (DigitValue(text[1]) * 10 + DigitValue(text[2])) * 24
    + DigitValue(text[4]) * 10 + DigitValue(text[5])

\* C9: the query of generate_report(hours) selects exactly the stored posts
\* whose fetch instant is later than the instant now - hours, whichever
\* calendar dates the two instants fall on.
C9_ReportWindowExact ==
    (last.op = "generate_report" /\ last.fault = "none"
     /\ last.exc = NoExc) =>
        Len(last.ret.rows) =
            Cardinality({i \in DOMAIN db :
                            FetchInstant(db[i].fetched_at) > clock - last.hours})

-----------------------------------------------------------------------------
(* Claims about fetch_posts, checked under SpecFetch *)

\* a source whose GET succeeds, whose body parses and which holds an item
Usable(answer) == answer.kind = "ok" /\ Len(answer.items) >= 1

\* the first usable source in priority order, 0 when there is none
Winner(answers) ==
    IF \E i \in DOMAIN answers : Usable(answers[i])
    THEN CHOOSE i \in DOMAIN answers :
             Usable(answers[i]) /\ \A j \in 1..(i - 1) : ~Usable(answers[j])
    ELSE 0

WinnerItems == fetch.answers[Winner(fetch.answers)].items

\* C3: fetch_posts requests the sources in priority order up to and including
\* the first one that answers a parseable feed with at least one item, and no
\* source after it; the posts returned are that one source's items, in the
\* feed's order, cut to the first `limit`; sources that error or hold no item
\* are passed over.
C3_FirstUsableSource ==
    fetch.called =>
        LET w == Winner(fetch.answers)
        IN  IF w = 0
            THEN fetch.requested = urls_to_try /\ fetch.posts = <<>>
            ELSE /\ fetch.requested = SubSeq(urls_to_try, 1, w)
                 /\ Len(fetch.posts) = Min(fetch.limit, Len(WinnerItems))
                 /\ \A k \in DOMAIN fetch.posts :
                        fetch.posts[k] = ParseItem(WinnerItems[k])

\* the first source timed out and the second one's two items were returned
C3_Witness ==
    /\ fetch.called
    /\ fetch.answers[1].kind = "timeout"
    /\ fetch.answers[2].kind = "ok"
    /\ Len(fetch.answers[2].items) = 2
    /\ Len(fetch.posts) = 2
    /\ fetch.requested = urls_to_try

\* C4: fetch_posts never raises: whatever the sources answer (transport
\* error, HTTP error status, unparseable body, no item) the call returns, and
\* it returns the empty list when no source is usable.
C4_NeverRaises ==
    fetch.called =>
        /\ fetch.exc = NoExc
        /\ Winner(fetch.answers) = 0 => fetch.posts = <<>>

\* the first body was not XML, the second GET failed, and [] was returned
C4_Witness ==
    /\ fetch.called
    /\ fetch.answers[1].kind = "bad_xml"
    /\ fetch.answers[2].kind = "http_error"
    /\ fetch.posts = <<>>
    /\ fetch.exc = NoExc

\* how many items of the feed are well-formed
WellFormedCount(items) == Cardinality({k \in DOMAIN items : WellFormed(items[k])})

\* C5 as stated: an item that lacks guid, link, pubDate or description/title
\* is skipped, so that a feed of k well-formed and m malformed items yields
\* exactly k posts.
C5_MalformedSkipped ==
    (fetch.called /\ Winner(fetch.answers) # 0
     /\ fetch.limit >= Len(WinnerItems)) =>
        /\ fetch.exc = NoExc
        /\ Len(fetch.posts) = WellFormedCount(WinnerItems)

\* C5, amended: no item is skipped. Every item of the feed yields a post,
\* an item that lacks a node included, its absent fields being the empty
\* string (content falling back to the title): k well-formed and m malformed
\* items yield k + m posts, cut to `limit`, and no exception.
C5_EveryItemYieldsPost ==
    (fetch.called /\ Winner(fetch.answers) # 0) =>
        /\ fetch.exc = NoExc
        /\ Len(fetch.posts) = Min(fetch.limit, Len(WinnerItems))
        /\ \A k \in DOMAIN fetch.posts :
               LET item == WinnerItems[k]
                   p    == fetch.posts[k]
               IN  /\ ~item.guid.present => p.id = PyStr(<<>>)
                   /\ ~item.link.present => p.url = PyStr(<<>>)
                   /\ ~item.pubDate.present => p.created_at = PyStr(<<>>)
                   /\ (~item.description.present /\ ~item.title.present)
                          => p.content = PyStr(<<>>)

\* a feed of one well-formed item and one item without guid gave two posts
C5_Witness ==
    /\ fetch.called
    /\ Winner(fetch.answers) # 0
    /\ Len(WinnerItems) = 2
    /\ WellFormed(WinnerItems[1])
    /\ ~WinnerItems[2].guid.present
    /\ Len(fetch.posts) = 2
    /\ fetch.posts[2].id = PyStr(<<>>)

-----------------------------------------------------------------------------
(* Claims about analyze_post, checked under SpecAnalyze *)

\* the keywords of the list that occur in the lower-cased text at least once
PresentKeywords(words, text) ==
    {w \in Range(words) :
        \E i \in 1..Len(text) :
            /\ i + Len(w) - 1 <= Len(text)
            /\ ToLower(SubSeq(text, i, i + Len(w) - 1)) = w}

\* the label and the score, in tenths, the claim gives for the counts
ClaimedSentiment(pos, neg, label, score) ==
    /\ pos > neg => label = "positive" /\ score = Min(5 + (pos - neg), 10)
    /\ neg > pos => label = "negative" /\ score = Max(-5 - (neg - pos), -10)
    /\ pos = neg => label = "neutral" /\ score = 0

\* C10 as stated: pos and neg are the numbers of occurrences of the positive
\* and of the negative keywords in the text, and label and score follow from
\* them.
C10_OccurrenceCounts ==
    runs >= 1 =>
        ClaimedSentiment(KeywordOccurrences(positive_words, ToLower(post.content.s)),
                         KeywordOccurrences(negative_words, ToLower(post.content.s)),
                         post.sentiment_label, post.sentiment_score)

\* C10, amended: pos and neg are the numbers of positive and of negative
\* keywords that occur at least once, as a case-insensitive substring, in the
\* text (a keyword repeated in the text counts once). If pos > neg the label
\* is positive and the score min(0.5 + 0.1 (pos - neg), 1.0); if neg > pos the
\* label is negative and the score max(-0.5 - 0.1 (neg - pos), -1.0); otherwise
\* neutral and 0.0. The label is positive, negative or neutral exactly when
\* the score is > 0, < 0 or = 0, and the "Great news ..." text is positive.
C10_PresenceCounts ==
    runs >= 1 =>
        /\ ClaimedSentiment(
               Cardinality(PresentKeywords(positive_words, post.content.s)),
               Cardinality(PresentKeywords(negative_words, post.content.s)),
               post.sentiment_label, post.sentiment_score)
        /\ post.sentiment_label = "positive" <=> post.sentiment_score > 0
        /\ post.sentiment_label = "negative" <=> post.sentiment_score < 0
        /\ post.sentiment_label = "neutral" <=> post.sentiment_score = 0
        /\ post.content.s = Great_news => post.sentiment_label = "positive"

\* "great great" was analysed: one keyword, two occurrences, score 0.6
C10_Witness ==
    /\ runs >= 1
    /\ post.content.s = <<"g", "r", "e", "a", "t", " ", "g", "r", "e", "a", "t">>
    /\ KeywordOccurrences(positive_words, ToLower(post.content.s)) = 2
    /\ post.sentiment_label = "positive"
    /\ post.sentiment_score = 6

\* the counts sum(1 for word in words if word in content_lower) can take
PositiveCounts == 0..Len(positive_words)

NegativeCounts == 0..Len(negative_words)

\* the score never decreases when pos - neg grows, over all pairs of counts
ScoreMonotonic ==
    \A a, c \in PositiveCounts : \A b, e \in NegativeCounts :
        (a - b <= c - e) => SentimentScore(a, b) <= SentimentScore(c, e)

\* C11: the sentiment score analyze_post computes is non-decreasing in
\* d = positive-keyword count - negative-keyword count over all pairs of
\* counts, and always lies in [-1, 1] (in tenths, -10..10).
C11_MonotonicAndClamped ==
    /\ ScoreMonotonic
    /\ \A a \in PositiveCounts : \A b \in NegativeCounts :
           SentimentScore(a, b) \in -10..10
    /\ runs >= 1 =>
           /\ post.sentiment_score \in -10..10
           /\ \A a \in PositiveCounts : \A b \in NegativeCounts :
                  LET d == pos_count(post.content.s) - neg_count(post.content.s)
                  IN  /\ a - b <= d => SentimentScore(a, b) <= post.sentiment_score
                      /\ a - b >= d => SentimentScore(a, b) >= post.sentiment_score

\* seven positive keywords and no negative one were found: the score is the
\* upper clamp 1.0, not 1.2
C11_Witness ==
    /\ runs >= 1
    /\ post.content.s = Many_positive
    /\ pos_count(post.content.s) - neg_count(post.content.s) = 7
    /\ post.sentiment_score = 10

\* t is a run of 1 to 5 upper-case letters that follows a $ or # in the text
FollowsPrefix(text, t) ==
    /\ Len(t) \in 1..5
    /\ \A k \in DOMAIN t : IsUpper(t[k])
    /\ \E i \in DOMAIN text :
           /\ text[i] \in {"$", "#"}
           /\ i + Len(t) <= Len(text)
           /\ SubSeq(text, i + 1, i + Len(t)) = t

\* C12: the ticker list analyze_post produces has no duplicate, every
\* element is a run of 1 to 5 upper-case letters that follows a $ or # in the
\* text, and applying analyze_post again to the same post yields the same
\* set of tickers; for the "Great news ..." text the set is {TSLA, AAPL}.
C12_TickersDistinctAndStable ==
    /\ [](runs >= 1 =>
            /\ \A j, k \in DOMAIN post.mentioned_stocks :
                   post.mentioned_stocks[j] = post.mentioned_stocks[k] => j = k
            /\ \A k \in DOMAIN post.mentioned_stocks :
                   FollowsPrefix(post.content.s, post.mentioned_stocks[k])
            /\ post.content.s = Great_news =>
                   Range(post.mentioned_stocks) = {TSLA, <<"A", "A", "P", "L">>})
    /\ [][runs >= 1 =>
             Range(post'.mentioned_stocks) = Range(post.mentioned_stocks)]_vars

\* analyze_post ran twice on a text that names TSLA twice and a run of seven
\* capitals: the list holds TSLA once and the first five capitals
C12_Witness ==
    /\ runs = 2
    /\ post.content.s = Long_ticker
    /\ Len(FindAll(post.content.s, 1)) = 3
    /\ Len(post.mentioned_stocks) = 2
    /\ Range(post.mentioned_stocks) = {TSLA, <<"A", "B", "C", "D", "E">>}

\* the whitespace-delimited tokens of the text, as spans <<first, last>>:
\* maximal runs of characters that are not whitespace
TokenSpans(text) ==
    {sp \in (DOMAIN text) \X (DOMAIN text) :
        /\ sp[1] <= sp[2]
        /\ \A i \in sp[1]..sp[2] : text[i] \notin Whitespace
        /\ sp[1] = 1 \/ text[sp[1] - 1] \in Whitespace
        /\ sp[2] = Len(text) \/ text[sp[2] + 1] \in Whitespace}

\* the tokens longer than 4 characters that hold letters only
KeywordSpans(text) ==
    {sp \in TokenSpans(text) :
        /\ sp[2] - sp[1] + 1 > 4
        /\ \A i \in sp[1]..sp[2] : IsAlphaChar(text[i])}

\* C13: for every post text the keyword list of analyze_post has at most 10
\* entries, every entry is a whitespace-delimited token of the text longer
\* than 4 characters and made of letters only, and the list is exactly the
\* first 10 such tokens in their original order.
C13_FirstTenKeywords ==
    runs >= 1 =>
        LET text == post.content.s
            ks   == KeywordSpans(text)
        IN  /\ Len(post.keywords) <= 10
            /\ Len(post.keywords) = Min(10, Cardinality(ks))
            /\ \A k \in DOMAIN post.keywords :
                   \E sp \in ks :
                       /\ Cardinality({o \in ks : o[1] < sp[1]}) = k - 1
                       /\ post.keywords[k] = SubSeq(text, sp[1], sp[2])

\* a text of fourteen tokens, twelve of them keywords, was analysed: the
\* list holds ten, the tenth being the tenth keyword of the text
C13_Witness ==
    /\ runs >= 1
    /\ post.content.s = Many_words
    /\ Cardinality(TokenSpans(post.content.s)) = 14
    /\ Cardinality(KeywordSpans(post.content.s)) = 12
    /\ Len(post.keywords) = 10
    /\ post.keywords[1] = <<"a", "l", "p", "h", "a">>
    /\ post.keywords[3] = <<"c", "h", "a", "r", "l", "i", "e">>
    /\ post.keywords[10] = <<"r", "o", "m", "e", "o">>

-----------------------------------------------------------------------------
(* Claims about run_daemon_mode, checked under SpecDaemon *)

\* C14: an error raised inside an iteration never ends the loop: it is
\* logged, the loop waits the fixed 60 seconds (not the configured interval)
\* and starts a new iteration; an iteration without error waits `interval`
\* seconds; the loop ends only on an external interrupt.
C14_ErrorsNeverEndLoop ==
    /\ [](daemon.pc \in {"returned", "raised"} => daemon.interrupted)
    /\ [][(daemon.pc = "check" /\ ~daemon'.interrupted) =>
             /\ last'.op = "get_new_posts"
             /\ last'.exc # NoExc =>
                    /\ daemon'.pc = "backoff"
                    /\ daemon'.errors = daemon.errors + 1
             /\ last'.exc = NoExc =>
                    /\ daemon'.pc = "sleep"
                    /\ daemon'.errors = daemon.errors]_vars
    /\ [][(daemon.pc = "backoff" /\ ~daemon'.interrupted) =>
             /\ last' = [op |-> "sleep", seconds |-> 60]
             /\ daemon'.pc = "check"
             /\ daemon'.iteration = daemon.iteration + 1]_vars
    /\ [][(daemon.pc = "sleep" /\ ~daemon'.interrupted) =>
             /\ last' = [op |-> "sleep", seconds |-> daemon.interval]
             /\ daemon'.pc = "check"
             /\ daemon'.iteration = daemon.iteration + 1]_vars

\* with --interval 900 the first iteration failed, the error was logged, the
\* loop slept 60 seconds and stands at the start of the second iteration
C14_Witness ==
    /\ daemon.pc = "check"
    /\ daemon.interval = DefaultInterval
    /\ daemon.iteration = 2
    /\ daemon.errors = 1
    /\ ~daemon.interrupted
    /\ last = [op |-> "sleep", seconds |-> 60]

\* C15: a KeyboardInterrupt arriving at any point of run_daemon_mode, during
\* fetch / analyze / save, during the interval sleep or during the 60-second
\* backoff sleep, makes it leave the loop and return normally: no exception
\* propagates out of it.
C15_InterruptReturns ==
    daemon.interrupted =>
        /\ daemon.pc = "returned"
        /\ daemon.exc = NoExc

\* the rows the get_new_posts call of this iteration added to the store
AddedRows == {i \in DOMAIN db : i > Len(last.dbBefore)}

\* C16: every post an iteration stores as new and whose ticker list is not
\* empty is flagged (logged) in that same iteration, also when a later post
\* of the same fetch fails to be analysed or saved.
C16_NewTickerPostsFlagged ==
    (daemon.pc \in {"sleep", "backoff"} /\ last.op = "get_new_posts") =>
        \A i \in AddedRows :
            JsonLoads(db[i].mentioned_stocks) # <<>> =>
                \E k \in DOMAIN daemon.flagged :
                    Row(daemon.flagged[k], clock) = db[i]

-----------------------------------------------------------------------------
(* More claims about fetch_posts, checked under SpecFetch *)

\* the string the claim gives a field: the text of its node, "" when the
\* node is absent or holds no text
TextOrEmptyString(node) ==
    IF node.present /\ ~node.text.isNone THEN node.text ELSE PyStr(<<>>)

\* C17: every post fetch_posts returns has string-valued id, created_at,
\* content and url: a field whose node is absent, or present without text,
\* is the empty string (never None), and content is the description text,
\* falling back to the title only when the item has no description node.
C17_FieldsAreStrings ==
    (fetch.called /\ Winner(fetch.answers) # 0) =>
        \A k \in DOMAIN fetch.posts :
            LET item == WinnerItems[k]
                p    == fetch.posts[k]
            IN  /\ ~p.id.isNone /\ ~p.created_at.isNone
                /\ ~p.content.isNone /\ ~p.url.isNone
                /\ p.id = TextOrEmptyString(item.guid)
                /\ p.created_at = TextOrEmptyString(item.pubDate)
                /\ p.url = TextOrEmptyString(item.link)
                /\ p.content = IF item.description.present
                               THEN TextOrEmptyString(item.description)
                               ELSE TextOrEmptyString(item.title)

-----------------------------------------------------------------------------
(* Claims about the queries, checked under Spec *)

\* a >= b for two strings compared character by character: b is a prefix of
\* a, or a holds the greater character where they first differ
LexGeq(a, b) ==
    \/ Len(b) <= Len(a) /\ SubSeq(a, 1, Len(b)) = b
    \/ \E i \in 1..Min(Len(a), Len(b)) :
           /\ SubSeq(a, 1, i - 1) = SubSeq(b, 1, i - 1)
           /\ CharCode(a[i]) > CharCode(b[i])

\* the rows of a result are in descending order of created_at
Descending(result) ==
    \A k \in 1..(Len(result) - 1) :
        LexGeq(result[k].created_at.s, result[k + 1].created_at.s)

\* C18: the rows get_posts_with_stock_mentions returns and the rows
\* generate_report uses are ordered by created_at descending, compared
\* lexicographically on the stored string: of two adjacent rows the earlier
\* one's created_at is greater than or equal to the later one's.
C18_OrderedByCreatedAtDesc ==
    /\ (last.op = "get_posts_with_stock_mentions" /\ last.exc = NoExc) =>
           Descending(last.ret)
    /\ (last.op = "generate_report" /\ last.exc = NoExc) =>
           Descending(last.ret.rows)

\* two posts stored oldest first were returned newest first by the query
C18_Witness ==
    /\ last.op = "get_posts_with_stock_mentions"
    /\ last.exc = NoExc
    /\ Len(db) = 2
    /\ Len(last.ret) = 2
    /\ db[1].created_at = PyStr(<<"d", "1">>)
    /\ db[2].created_at = PyStr(<<"d", "2">>)
    /\ last.ret[1] = PostDict(db[2])
    /\ last.ret[2] = PostDict(db[1])

\* the stored posts of the report window: fetched later than now - hours
Window == {i \in DOMAIN db : FetchInstant(db[i].fetched_at) > clock - last.hours}

\* C19: when its window holds at least one post, generate_report states the
\* number of posts in the window, the set of distinct tickers those posts
\* mention, and at most 5 posts, the first 5 of the created_at-descending
\* result, each with no more than 100 characters of its content and the
\* glyph of its sentiment label; the call changes nothing in the store.
C19_ReportContents ==
    (last.op = "generate_report" /\ last.fault = "none" /\ Window # {}) =>
        /\ last.exc = NoExc
        /\ ~last.ret.empty
        /\ last.ret.count = Cardinality(Window)
        /\ last.ret.stocks =
               UNION {Range(JsonLoads(db[i].mentioned_stocks)) : i \in Window}
        /\ Len(last.ret.shown) = Min(5, Cardinality(Window))
        /\ Descending(last.ret.rows)
        /\ \A k \in DOMAIN last.ret.shown :
               LET row  == last.ret.rows[k]
                   line == last.ret.shown[k]
               IN  /\ \E i \in Window : db[i] = row
                   /\ IF Len(row.content.s) > 100
                      THEN line.content =
                               SubSeq(row.content.s, 1, 100) \o <<".", ".", ".">>
                      ELSE line.content = row.content.s
                   /\ line.glyph = "smile" <=> row.sentiment_label = "positive"
                   /\ line.glyph = "angry" <=> row.sentiment_label = "negative"
                   /\ line.glyph = "neutral" <=> row.sentiment_label = "neutral"
        /\ db = last.dbBefore

-----------------------------------------------------------------------------
(* Claims about the pagination of NitterClient, checked under SpecNitterFair *)

\* C20: the cursor pagination loop of get_user_tweets and search_tweets is
\* bounded: for every sequence of page responses, pages whose items all
\* parse to no tweet but which carry a next cursor included, the loop stops
\* after finitely many page fetches, and the call returns at most `limit`
\* tweets.
C20_PaginationTerminates ==
    <>(nitter.pc = "returned" /\ Len(nitter.ret) <= nitter.limit)

====
